---- MODULE Spec2Model ----
(***************************************************************************)
(* pg_node2graph: the parser that rebuilds a node tree from a PostgreSQL   *)
(* node dump (parse_pg_node_tree, get_pg_node_name) and the serializer     *)
(* that writes the tree as a dot script in two breadth-first passes        *)
(* (write_dot_script), as main() runs them over the files of a batch.      *)
(*                                                                         *)
(* Characters are one-character strings, a text is a sequence of them.     *)
(* Nodes live in an arena (the sequence nodes, in creation order); a       *)
(* node_t pointer is an index into it.                                     *)
(***************************************************************************)
EXTENDS Integers, Sequences, FiniteSets, TLC

(* ------------------------------------------------------------------ *)
(* Bounds of the model                                                *)
(* ------------------------------------------------------------------ *)

\* longest input drawn exhaustively over Alphabet
MaxLen == 4
\* longest tail drawn exhaustively over TailAlphabet after a seed
MaxTail == 3
\* number of files main() is given (the same file, named Files times)
Files == 2

(* ------------------------------------------------------------------ *)
(* tag_t                                                              *)
(* ------------------------------------------------------------------ *)

TagHide == "TagHide"
TagNode == "TagNode"
TagList == "TagList"
TagItem == "TagItem"

(* ------------------------------------------------------------------ *)
(* Texts                                                              *)
(* ------------------------------------------------------------------ *)

Alphabet == {"{", "}", "(", ")", ":", " ", "a"}
TailAlphabet == {"{", "}", "(", ")", ":", "-"}
\* the characters of field values, with the three the dot language reserves
LabelAlphabet == {"\"", "<", ">", " ", "a"}

\* the three inputs the specification names
InListChain == <<"{","A"," ",":","f"," ","(","x",")"," ","{","B","}"," ","{","C","}"," ",")","}">>
InSuppressed == <<"{","A"," ",":","f"," ","{","B","}","}">>
InQuery == <<"{","Q","U","E","R","Y"," ",":","t","a","r","g","e","t","L","i","s","t"," ","(",
             "{","T","A","R","G","E","T","E","N","T","R","Y"," ",":","e","x","p","r"," ","-","-","}",")","}">>
\* the list of InListChain written the way a dump writes it
InList == <<"{","A"," ",":","f"," ","(","{","B","}"," ","{","C","}",")","}">>
\* deeper trees: two levels below the root on both sides, lists inside lists
InDeep == <<"{","A","{","B","{","C",":","x","}","}","{","D","{","E",":","-","-","}","}","}">>
InWide == <<"{","R",":","p"," ","1",":","q","(","{","S",":","u","}","{","T",":","v","{","U","}","}",")",":","-","-","}">>
InReroot == <<"{","a","(","x","{","b","}",")","{","r",":","f","(","{","b","}",":","g",")","}","}">>
\* a dump cut off in the middle of a field value
InCutOff == <<"{","A"," ",":","f"," ","1">>
\* a '(' inside a field value, and a '(' that opens a list after a space
InParens == <<"{","A"," ",":","f"," ","(","x",")"," ",":","g"," ","("," ","{","B","}",")","}">>
\* a '(' read right after the '}' of a nested node, twice
InRelist == <<"{","a","{","b","{","c","}","(","{","d","}",")","}","(","{","e","}",")","}">>
\* a field whose label holds "--" and which heads a nested node
InSkipHead == <<"{","A"," ",":","-","-","f"," ","{","B"," ",":","x","}","}">>

Examples == {InListChain, InSuppressed, InQuery, InList, InDeep, InWide, InReroot, InCutOff,
             InParens, InRelist, InSkipHead}

\* prefixes that open a list, after which every short tail is tried
Seeds == { <<"{","a",":","f","(","{","b","}">>,
           <<"{","a",":","f","{","b",":","-","-","}">>,
           <<"{","a","{","b",":","x","}">>,
           <<"{","a",":","f","(","{","b","}",":","g">> }

RECURSIVE SeqsUpTo(_, _)
SeqsUpTo(S, n) ==
    IF n = 0 THEN {<<>>}
    ELSE LET shorter == SeqsUpTo(S, n - 1)
         IN  shorter \cup {Append(s, c) : s \in shorter, c \in S}

Inputs ==
    Examples \cup SeqsUpTo(Alphabet, MaxLen)
             \cup {seed \o t : seed \in Seeds, t \in SeqsUpTo(TailAlphabet, MaxTail)}
             \cup {<<"{", "a", ":">> \o t \o <<"}">> : t \in SeqsUpTo(LabelAlphabet, MaxTail)}

Last(s) == s[Len(s)]
Front(s) == SubSeq(s, 1, Len(s) - 1)

\* isspace() on the characters of the model
isspace(c) == c \in {" "}

\* string::find(sub) != npos
RECURSIVE Contains(_, _)
Contains(s, sub) ==
    IF Len(s) < Len(sub) THEN FALSE
    ELSE IF SubSeq(s, 1, Len(sub)) = sub THEN TRUE
    ELSE Contains(Tail(s), sub)

(* ------------------------------------------------------------------ *)
(* trim, and the name reader get_pg_node_name                         *)
(* ------------------------------------------------------------------ *)

\* ltrim: i runs up to the terminating NUL, which is no space
RECURSIVE ltrim(_)
ltrim(str) ==
    IF str # <<>> /\ isspace(Head(str)) THEN ltrim(Tail(str)) ELSE str

\* rtrim reads str[len - 1] before it looks at len: on a text that is empty or
\* all spaces the last read is str[-1], outside the string. RtrimOutOfBounds
\* says when that read happens; rtrim is the result when the byte read there
\* is no space (any other outcome that returns gives the same trim()).
RECURSIVE rtrim(_)
rtrim(str) ==
    IF str # <<>> /\ isspace(Last(str)) THEN rtrim(Front(str)) ELSE str

RtrimOutOfBounds(str) == rtrim(str) = <<>>

trim(str) == ltrim(rtrim(str))

\* (faulty variant: '>' is left in the name)
SanitizeCharKeepsGreater(c) ==
    IF c = "\"" THEN " " ELSE IF c = "<" THEN "-" ELSE c

\* the character loop of get_pg_node_name: replaces '"' by a space and '<', '>' by '-'

SanitizeChar(c) ==
    IF c = "\"" THEN " " ELSE IF c \in {"<", ">"} THEN "-" ELSE c

Sanitize(name) == [i \in 1..Len(name) |-> SanitizeChar(name[i])]

RECURSIVE SkipSpaces(_)
SkipSpaces(s) ==
    IF s # <<>> /\ isspace(Head(s)) THEN SkipSpaces(Tail(s)) ELSE s

\* The read loop of get_pg_node_name on the stream s (what getc will deliver),
\* with the name read so far. It yields the raw name and the stream left after
\* the ungetc calls; eof says the loop ran into end-of-file, where getc keeps
\* returning EOF (not 0) and the loop never ends.
RECURSIVE ReadName(_, _)
ReadName(s, name) ==
    IF s = <<>> THEN [name |-> name, rest |-> <<>>, eof |-> TRUE]
    ELSE LET ch == Head(s) IN
         IF ch \in {":", "{", "}"}
         THEN [name |-> name, rest |-> s, eof |-> FALSE]
         ELSE IF ch = "("
         THEN LET after == SkipSpaces(Tail(s)) IN
              IF after # <<>> /\ Head(after) = "{"
              THEN [name |-> name, rest |-> <<"(">> \o after, eof |-> FALSE]
              ELSE ReadName(after, Append(name, ch))
         ELSE ReadName(Tail(s), Append(name, ch))

\* (faulty variant: the final ungetc(ch, fp) is missing)
NameWithoutUngetc(s) ==
    LET r == ReadName(s, <<>>)
    IN  [name |-> Sanitize(trim(r.name)), rest |-> IF r.rest = <<>> THEN <<>> ELSE Tail(r.rest),
         eof |-> r.eof,
         oob |-> RtrimOutOfBounds(r.name)]

\* get_pg_node_name on the stream s: the name returned and the stream left

get_pg_node_name(s) ==
    LET r == ReadName(s, <<>>)
    IN  [name |-> Sanitize(trim(r.name)), rest |-> r.rest, eof |-> r.eof,
         oob |-> RtrimOutOfBounds(r.name)]

(* ------------------------------------------------------------------ *)
(* State                                                              *)
(* ------------------------------------------------------------------ *)

VARIABLES
    input,              \* the text of the input file
    enable_color,       \* option -c
    enable_skip_empty,  \* option -s
    file,               \* which of main()'s files is being converted (1..Files)
    pc,                 \* where the conversion of this file stands
    stream,             \* what getc(fp) will deliver, pushed-back characters first
    nodes,              \* the arena: every node_t allocated by this parse
    nodes_stack,        \* parse_pg_node_tree's stack, top last
    node_suffix,        \* parse_pg_node_tree's counter
    prev_is_item,       \* parse_pg_node_tree's flag
    root,               \* the node parse_pg_node_tree returned (0: none)
    bfs,                \* write_dot_script's queue, front first
    out,                \* what write_dot_script has written: node blocks and edge lines
    freed,              \* the nodes write_dot_script has deleted
    born,               \* history: for each node, where its delimiter stood and its first suffix
    scripts,            \* the dot scripts of the files converted before this one
    again,              \* what a second write_dot_script on the same root did (<<>>: not called)
    reported            \* what main() printed for this file (<<>>: nothing yet)

vars == <<input, enable_color, enable_skip_empty, file, pc, stream, nodes,
          nodes_stack, node_suffix, prev_is_item, root, bfs, out, freed, born,
          scripts, again, reported>>

options == <<input, enable_color, enable_skip_empty>>
parser == <<nodes, nodes_stack, node_suffix, prev_is_item, born>>
writer == <<bfs, out, freed, again>>

\* position in input of the character getc delivers next
Pos == Len(input) - Len(stream) + 1

Init ==
    /\ input \in Inputs
    /\ enable_color \in BOOLEAN
    /\ enable_skip_empty \in BOOLEAN
    /\ file = 1
    /\ pc = "parse"
    /\ stream = input
    /\ nodes = <<>>
    /\ nodes_stack = <<>>
    /\ node_suffix = 0
    /\ prev_is_item = FALSE
    /\ root = 0
    /\ bfs = <<>>
    /\ out = <<>>
    /\ freed = {}
    /\ born = <<>>
    /\ scripts = <<>>
    /\ again = <<>>
    /\ reported = <<>>

(* ------------------------------------------------------------------ *)
(* parse_pg_node_tree                                                 *)
(* ------------------------------------------------------------------ *)

\* (faulty variant: the counter is not advanced)
SuffixStuck(n) == n

\* node_suffix++

NextSuffix(n) == n + 1

\* the text snprintf writes for one edge: its four numbers and the colour
get_dot_edge(src_suffix, src_index, dst_suffix, dst_index, list) ==
    [src |-> src_suffix, srcport |-> src_index,
     dst |-> dst_suffix, dstport |-> dst_index,
     color |-> IF enable_color
               THEN (IF list THEN " [color=blue]" ELSE " [color=green]")
               ELSE ""]

\* (faulty variant: a list element is not chained to the element before it)
EdgeSourceNoChain(ns, top) ==
    [suffix |-> ns[top].suffix, index |-> ns[top].index]

\* case '{': the source of the new edge, given the node the new one hangs under
EdgeSource(ns, top) ==
    IF ns[top].tag = TagList /\ ns[top].elems # <<>>
    THEN [suffix |-> ns[Last(ns[top].elems)].suffix, index |-> 0]
    ELSE [suffix |-> ns[top].suffix, index |-> ns[top].index]

\* (faulty variant: the hidden item keeps its own suffix)
PromoteKeepsSuffix(ns, tmp) ==
    LET item == Last(ns[tmp].elems)
    IN  [ns EXCEPT ![item].tag = TagHide]

\* case '{' with prev_is_item: the last child of the stack top is hidden and
\* takes the top's suffix

Promote(ns, tmp) ==
    LET item == Last(ns[tmp].elems)
    IN  [ns EXCEPT ![item].tag = TagHide, ![item].suffix = ns[tmp].suffix]

\* (faulty variant: the node is not pushed onto top->elems)
AttachDetached(ns, top, node) ==
    Append(ns, [node EXCEPT !.index = Len(ns[top].elems) + 1])

\* top->elems.push_back(node); node->index = top->elems.size()
Attach(ns, top, node) ==
    Append([ns EXCEPT ![top].elems = Append(@, Len(ns) + 1)],
           [node EXCEPT !.index = Len(ns[top].elems) + 1])

\* (faulty variant: a new node starts at slot 1)
NewNodeSlotOne(tag, name, suffix) ==
    [tag |-> tag, name |-> name, index |-> 1, suffix |-> suffix,
     edges |-> <<>>, elems |-> <<>>]

\* new node_t() with the fields the creating case sets; index is 0 until the
\* node is pushed onto some elems

NewNode(tag, name, suffix) ==
    [tag |-> tag, name |-> name, index |-> 0, suffix |-> suffix,
     edges |-> <<>>, elems |-> <<>>]

Reading(ch) == pc = "parse" /\ stream # <<>> /\ Head(stream) = ch

\* get_pg_node_name never returns: at end-of-file getc returns EOF, which is
\* not 0, and the loop appends it to the name for ever
NameSpins ==
    /\ pc' = "spin"
    /\ stream' = <<>>
    /\ UNCHANGED <<parser, root>>

\* rtrim read outside the name: one outcome is that the read faults
NameFaults ==
    /\ pc' = "crash"
    /\ UNCHANGED <<stream, parser, root>>

\* (faulty variant: the assertion is not made and the character is skipped)
AssertSkipped ==
    /\ pc' = pc
    /\ stream' = Tail(stream)
    /\ UNCHANGED <<parser, root>>

\* assert(...) fails: the process is aborted where it stands

AssertFails ==
    /\ pc' = "abort"
    /\ UNCHANGED <<stream, parser, root>>

OpenBrace ==
    /\ Reading("{")
    /\ LET at == Pos
           got == get_pg_node_name(Tail(stream))
           node == NewNode(TagNode, got.name, node_suffix)
           id == Len(nodes) + 1
       IN  IF got.eof THEN NameSpins
           ELSE \/ got.oob /\ NameFaults
                \/ IF nodes_stack = <<>>
                   THEN /\ nodes' = Append(nodes, node)
                        /\ nodes_stack' = <<id>>
                        /\ node_suffix' = NextSuffix(node_suffix)
                        /\ born' = Append(born, [at |-> at, suffix |-> node_suffix])
                        /\ prev_is_item' = FALSE
                        /\ stream' = got.rest
                        /\ UNCHANGED <<pc, root>>
                   ELSE IF prev_is_item /\ nodes[Last(nodes_stack)].elems = <<>>
                   THEN AssertFails
                   ELSE LET tmp == Last(nodes_stack)
                            top == IF prev_is_item THEN Last(nodes[tmp].elems) ELSE tmp
                            ns == IF prev_is_item THEN Promote(nodes, tmp) ELSE nodes
                            src == EdgeSource(ns, top)
                            edgeinfo == get_dot_edge(src.suffix, src.index, node_suffix, 0,
                                                     ns[top].tag = TagList)
                        IN  /\ nodes' = Attach([ns EXCEPT ![top].edges = Append(@, edgeinfo)],
                                               top, node)
                            /\ nodes_stack' = Append(nodes_stack, id)
                            /\ node_suffix' = NextSuffix(node_suffix)
                            /\ born' = Append(born, [at |-> at, suffix |-> node_suffix])
                            /\ prev_is_item' = FALSE
                            /\ stream' = got.rest
                            /\ UNCHANGED <<pc, root>>
    /\ UNCHANGED <<options, file, writer, scripts, reported>>

\* (faulty variant: prev_is_item is not reset)
CloseBraceKeepsFlag ==
    /\ Reading("}")
    /\ IF nodes_stack = <<>> THEN AssertFails
       ELSE /\ nodes_stack' = Front(nodes_stack)
            /\ stream' = Tail(stream)
            /\ IF Len(nodes_stack) = 1
               THEN root' = Last(nodes_stack) /\ pc' = "parsed"
               ELSE UNCHANGED <<root, pc>>
            /\ UNCHANGED <<nodes, node_suffix, born, prev_is_item>>
    /\ UNCHANGED <<options, file, writer, scripts, reported>>

\* case '}': the top is popped, and returned if the stack is empty now

CloseBrace ==
    /\ Reading("}")
    /\ IF nodes_stack = <<>> THEN AssertFails
       ELSE /\ nodes_stack' = Front(nodes_stack)
            /\ prev_is_item' = FALSE
            /\ stream' = Tail(stream)
            /\ IF Len(nodes_stack) = 1
               THEN root' = Last(nodes_stack) /\ pc' = "parsed"
               ELSE UNCHANGED <<root, pc>>
            /\ UNCHANGED <<nodes, node_suffix, born>>
    /\ UNCHANGED <<options, file, writer, scripts, reported>>

\* (faulty variant: the last child is pushed without becoming a list)
OpenParenKeepsTag ==
    /\ Reading("(")
    /\ IF nodes_stack = <<>> \/ nodes[Last(nodes_stack)].elems = <<>>
       THEN AssertFails
       ELSE /\ nodes_stack' = Append(nodes_stack, Last(nodes[Last(nodes_stack)].elems))
            /\ prev_is_item' = FALSE
            /\ stream' = Tail(stream)
            /\ UNCHANGED <<nodes, node_suffix, born, pc, root>>
    /\ UNCHANGED <<options, file, writer, scripts, reported>>

\* case '(': the last child of the stack top becomes a list and is pushed

OpenParen ==
    /\ Reading("(")
    /\ IF nodes_stack = <<>> \/ nodes[Last(nodes_stack)].elems = <<>>
       THEN AssertFails
       ELSE LET top == Last(nodes_stack)
                node == Last(nodes[top].elems)
            IN  /\ nodes' = [nodes EXCEPT ![node].tag = TagList,
                                          ![node].suffix = nodes[top].suffix]
                /\ nodes_stack' = Append(nodes_stack, node)
                /\ prev_is_item' = FALSE
                /\ stream' = Tail(stream)
                /\ UNCHANGED <<node_suffix, born, pc, root>>
    /\ UNCHANGED <<options, file, writer, scripts, reported>>

CloseParen ==
    /\ Reading(")")
    /\ IF nodes_stack = <<>> THEN AssertFails
       ELSE /\ nodes_stack' = Front(nodes_stack)
            /\ prev_is_item' = FALSE
            /\ stream' = Tail(stream)
            /\ UNCHANGED <<nodes, node_suffix, born, pc, root>>
    /\ UNCHANGED <<options, file, writer, scripts, reported>>

Colon ==
    /\ Reading(":")
    /\ IF nodes_stack = <<>> THEN AssertFails
       ELSE LET at == Pos
                got == get_pg_node_name(Tail(stream))
                node == NewNode(TagItem, got.name, node_suffix)
            IN  IF got.eof THEN NameSpins
                ELSE \/ got.oob /\ NameFaults
                     \/ /\ nodes' = Attach(nodes, Last(nodes_stack), node)
                        /\ node_suffix' = NextSuffix(node_suffix)
                        /\ born' = Append(born, [at |-> at, suffix |-> node_suffix])
                        /\ prev_is_item' = TRUE
                        /\ stream' = got.rest
                        /\ UNCHANGED <<nodes_stack, pc, root>>
    /\ UNCHANGED <<options, file, writer, scripts, reported>>

\* default: the character is ignored
OtherChar ==
    /\ pc = "parse" /\ stream # <<>>
    /\ Head(stream) \notin {"{", "}", "(", ")", ":"}
    /\ stream' = Tail(stream)
    /\ UNCHANGED <<options, file, pc, parser, root, writer, scripts, reported>>

\* getc returns EOF: the loop ends and parse_pg_node_tree returns NULL
EndOfInput ==
    /\ pc = "parse" /\ stream = <<>>
    /\ pc' = "noroot"
    /\ UNCHANGED <<options, file, stream, parser, root, writer, scripts, reported>>

(* ------------------------------------------------------------------ *)
(* write_dot_script                                                   *)
(* ------------------------------------------------------------------ *)

\* default_node_color_mapping, the table load_default_color_map installs
default_node_color_mapping ==
    { [name |-> <<"Q","U","E","R","Y">>, bgcolor |-> "skyblue"],
      [name |-> <<"P","L","A","N","N","E","D","S","T","M","T">>, bgcolor |-> "pink"],
      [name |-> <<"T","A","R","G","E","T","E","N","T","R","Y">>, bgcolor |-> "sienna"] }

\* the colours get_dot_node_header puts into the header of a block
HeaderColor(name) ==
    IF enable_color /\ \E m \in default_node_color_mapping : m.name = name
    THEN (CHOOSE m \in default_node_color_mapping : m.name = name).bgcolor
    ELSE ""

\* name.find("--") != npos
name_contains_empty(name) == Contains(name, <<"-", "-">>)

\* one table row: the port f<suffix>, the text, and whether the text is laid
\* out as the nested table format_colnames builds
get_dot_node_body(suffix, name) ==
    [port |-> suffix, text |-> name,
     table |-> Contains(name, <<"c","o","l","n","a","m","e","s">>) /\ name # <<"c","o","l","n","a","m","e","s"," ","-","-">>]

\* (faulty variant: enable_skip_empty is not honoured)
RowShownAlways(name) == TRUE

\* pass 1: does the child get a row

RowShown(name) == ~enable_skip_empty \/ ~name_contains_empty(name)

\* (faulty variant: hidden nodes get a block)
BlockWrittenUnlessList(tag) == tag # TagList

\* pass 1: is the block of the visited node written

BlockWritten(tag) == tag # TagList /\ tag # TagHide

\* (faulty variant: pass 1 visits childless nodes too)
QueuedAlways(ns, child) == TRUE

\* pass 1: is the child visited later

Queued(ns, child) == ns[child].elems # <<>>

\* (faulty variant: a stack instead of a queue)
BfsPushFront(q, ids) == ids \o q

\* queue<const node_t *>: push at the back, front() and pop() at the front

BfsPush(q, ids) == q \o ids

\* (faulty variant: hidden children get no row)
RowsWithoutHidden(ns, parent) ==
    LET shown(c) == RowShown(ns[c].name) /\ ns[c].tag # TagHide
        kept == SelectSeq(ns[parent].elems, shown)
    IN  [i \in 1..Len(kept) |-> get_dot_node_body(ns[kept[i]].index, ns[kept[i]].name)]

\* the rows of the block of parent, in the order of parent->elems
Rows(ns, parent) ==
    LET shown(c) == RowShown(ns[c].name)
        kept == SelectSeq(ns[parent].elems, shown)
    IN  [i \in 1..Len(kept) |-> get_dot_node_body(ns[kept[i]].index, ns[kept[i]].name)]

NodeBlock(ns, parent) ==
    [kind |-> "node", suffix |-> ns[parent].suffix, name |-> ns[parent].name,
     color |-> HeaderColor(ns[parent].name), rows |-> Rows(ns, parent)]

EdgeLine(e) == [kind |-> "edge", edge |-> e]

\* write_dot_script is entered: the prologue is written, pass 1 starts at the root
WriteBegin ==
    /\ pc = "parsed"
    /\ pc' = "pass1"
    /\ bfs' = <<root>>
    /\ out' = <<>>
    /\ UNCHANGED <<options, file, stream, parser, root, freed, scripts, again, reported>>

\* one turn of the first while loop
Pass1Visit ==
    /\ pc = "pass1" /\ bfs # <<>>
    /\ LET parent == Head(bfs)
           queued(c) == Queued(nodes, c)
       IN  /\ bfs' = BfsPush(Tail(bfs), SelectSeq(nodes[parent].elems, queued))
           /\ out' = IF BlockWritten(nodes[parent].tag)
                     THEN Append(out, NodeBlock(nodes, parent))
                     ELSE out
    /\ UNCHANGED <<options, file, pc, stream, parser, root, freed, scripts, again, reported>>

\* the first loop ends; pass 2 starts at the root
Pass2Begin ==
    /\ pc = "pass1" /\ bfs = <<>>
    /\ pc' = "pass2"
    /\ bfs' = <<root>>
    /\ UNCHANGED <<options, file, stream, parser, root, out, freed, scripts, again, reported>>

\* (faulty variant: a node visited for the first time is queued once more)
Pass2VisitTwice ==
    /\ pc = "pass2" /\ bfs # <<>>
    /\ LET curr == Head(bfs)
       IN  /\ bfs' = BfsPush(Tail(bfs), nodes[curr].elems \o
                                        (IF curr \in freed THEN <<>> ELSE <<curr>>))
           /\ out' = out \o [i \in 1..Len(nodes[curr].edges) |-> EdgeLine(nodes[curr].edges[i])]
           /\ freed' = freed \cup {curr}
    /\ UNCHANGED <<options, file, pc, stream, parser, root, scripts, again, reported>>

\* one turn of the second while loop

Pass2Visit ==
    /\ pc = "pass2" /\ bfs # <<>>
    /\ LET curr == Head(bfs)
       IN  /\ bfs' = BfsPush(Tail(bfs), nodes[curr].elems)
           /\ out' = out \o [i \in 1..Len(nodes[curr].edges) |-> EdgeLine(nodes[curr].edges[i])]
           /\ freed' = freed \cup {curr}
    /\ UNCHANGED <<options, file, pc, stream, parser, root, scripts, again, reported>>

\* the second loop ends: the closing brace is written and the file flushed
WriteEnd ==
    /\ pc = "pass2" /\ bfs = <<>>
    /\ pc' = "written"
    /\ UNCHANGED <<options, file, stream, parser, root, writer, scripts, reported>>

(* ------------------------------------------------------------------ *)
(* main: the loop over the files                                      *)
(* ------------------------------------------------------------------ *)

\* (faulty variant: the counter lives on from one parse to the next)
SuffixKept(n) == n

\* size_t node_suffix = 0 at the start of every parse_pg_node_tree

SuffixAtStart(n) == 0

\* fopen fails on the input file, or else on the dot file: node2graph goes to
\* failed before anything is read
OpenFails ==
    /\ pc = "parse" /\ stream = input /\ nodes = <<>>
    /\ \E which \in {"noinput", "nodot"} : pc' = which
    /\ UNCHANGED <<options, file, stream, parser, root, writer, scripts, reported>>

\* system(dotcmd) after write_dot_script: its status is 0 or it is not
Render ==
    /\ pc = "written"
    /\ again = <<>>
    /\ \E status \in {0, 1} : pc' = IF status # 0 THEN "norender" ELSE "rendered"
    /\ UNCHANGED <<options, file, stream, parser, root, writer, scripts, reported>>

\* the conversion took one of the goto failed
Failed == pc \in {"noinput", "nodot", "noroot", "norender"}

\* what node2graph returns behind the label failed, which every path reaches
node2graph(failed) == TRUE

\* node2graph returns and main() prints ok or failed after the file's name
Report ==
    /\ pc \in {"noinput", "nodot", "noroot", "norender", "rendered"}
    /\ reported = <<>>
    /\ reported' = <<[failed |-> Failed,
                      said |-> IF node2graph(Failed) THEN "ok" ELSE "failed"]>>
    /\ UNCHANGED <<options, file, pc, stream, parser, root, writer, scripts>>

\* main() turns to the next file, here the same file again. A parse that
\* returned NULL leaves the dot file empty; a failed fopen leaves no dot file.
NextFile ==
    /\ reported # <<>>
    /\ again = <<>>
    /\ file < Files
    /\ file' = file + 1
    /\ scripts' = IF pc \in {"noinput", "nodot"} THEN scripts ELSE Append(scripts, out)
    /\ reported' = <<>>
    /\ pc' = "parse"
    /\ stream' = input
    /\ nodes' = <<>>
    /\ nodes_stack' = <<>>
    /\ node_suffix' = SuffixAtStart(node_suffix)
    /\ prev_is_item' = FALSE
    /\ root' = 0
    /\ bfs' = <<>>
    /\ out' = <<>>
    /\ freed' = {}
    /\ born' = <<>>
    /\ UNCHANGED <<options, again>>

Next ==
    \/ OpenBrace
    \/ CloseBrace
    \/ OpenParen
    \/ CloseParen
    \/ Colon
    \/ OtherChar
    \/ EndOfInput
    \/ WriteBegin
    \/ Pass1Visit
    \/ Pass2Begin
    \/ Pass2Visit
    \/ WriteEnd
    \/ OpenFails
    \/ Render
    \/ Report
    \/ NextFile

Spec == Init /\ [][Next]_vars

(* ------------------------------------------------------------------ *)
(* write_dot_script runs to its end                                   *)
(* ------------------------------------------------------------------ *)

\* a step of write_dot_script
WriteStep == WriteBegin \/ Pass1Visit \/ Pass2Begin \/ Pass2Visit \/ WriteEnd

\* the inputs of SpecLive: the named examples and every short text
InitLive == Init /\ (input \in Examples \/ Len(input) <= MaxLen)

\* write_dot_script is straight-line code around two loops, called by
\* node2graph as soon as the parser has returned a root: while one of its
\* steps can be taken, the next one is taken
SpecLive == InitLive /\ [][Next]_vars /\ WF_vars(WriteStep)

(* ------------------------------------------------------------------ *)
(* A caller that serializes the tree it has already serialized        *)
(* ------------------------------------------------------------------ *)

RECURSIVE Prefixes(_)
Prefixes(s) == IF s = <<>> THEN {<<>>} ELSE {s} \cup Prefixes(Front(s))

\* write_dot_script(root, fp) once more on the same root. Pass 2 of the first
\* call deleted every node, so each read goes to freed memory: either the
\* bytes are still what they were and the call writes the same script (and
\* deletes the nodes a second time), or it goes wrong after some part of it.
WriteAgain ==
    /\ pc = "written"
    /\ again = <<>>
    /\ root \in freed
    /\ \E fault \in BOOLEAN :
         \E text \in (IF fault THEN Prefixes(out) ELSE {out}) :
            /\ again' = <<[fault |-> fault, out |-> text]>>
            /\ pc' = IF fault THEN "crash" ELSE pc
    /\ UNCHANGED <<options, file, stream, parser, root, bfs, out, freed, scripts, reported>>

NextTwice == Next \/ WriteAgain

SpecTwice == Init /\ [][NextTwice]_vars

(* ------------------------------------------------------------------ *)
(* Vocabulary of the properties                                       *)
(* ------------------------------------------------------------------ *)

\* parse_pg_node_tree was called and is no longer reading
ParseEnded == pc \notin {"parse", "noinput", "nodot"}

\* the nodes reachable from n through elems
RECURSIVE Reach(_, _)
Reach(ns, n) ==
    {n} \cup UNION {Reach(ns, ns[n].elems[i]) : i \in DOMAIN ns[n].elems}

\* the number of '{' and ':' in a text
RECURSIVE CountDelims(_)
CountDelims(s) ==
    IF s = <<>> THEN 0
    ELSE (IF Head(s) \in {"{", ":"} THEN 1 ELSE 0) + CountDelims(Tail(s))

\* the {} and () of a text nest and all close; open holds the closers awaited
RECURSIVE Nests(_, _)
Nests(s, open) ==
    IF s = <<>> THEN open = <<>>
    ELSE IF Head(s) = "{" THEN Nests(Tail(s), <<"}">> \o open)
    ELSE IF Head(s) = "(" THEN Nests(Tail(s), <<")">> \o open)
    ELSE IF Head(s) \in {"}", ")"}
         THEN open # <<>> /\ Head(open) = Head(s) /\ Nests(Tail(s), Tail(open))
    ELSE Nests(Tail(s), open)

Balanced(s) == Nests(s, <<>>)

NodeNamed(nm) == CHOOSE n \in DOMAIN nodes : nodes[n].name = nm

AllEdges == UNION {{nodes[n].edges[i] : i \in DOMAIN nodes[n].edges} : n \in DOMAIN nodes}

Blocks == SelectSeq(out, LAMBDA l : l.kind = "node")
EdgeLines == SelectSeq(out, LAMBDA l : l.kind = "edge")

\* the node a written block stands for: the structural node with its suffix
NodeOfBlock(b) == CHOOSE n \in DOMAIN nodes : nodes[n].tag = TagNode /\ nodes[n].suffix = b.suffix

HasParent(n) == \E p \in DOMAIN nodes : \E i \in DOMAIN nodes[p].elems : nodes[p].elems[i] = n
ParentOf(n) == CHOOSE p \in DOMAIN nodes : \E i \in DOMAIN nodes[p].elems : nodes[p].elems[i] = n
PlaceOf(n) == CHOOSE i \in DOMAIN nodes[ParentOf(n)].elems : nodes[ParentOf(n)].elems[i] = n

\* the places passed on the way from the root down to n
RECURSIVE PathTo(_)
PathTo(n) == IF n = root \/ ~HasParent(n) THEN <<>> ELSE Append(PathTo(ParentOf(n)), PlaceOf(n))

RECURSIVE LexLess(_, _)
LexLess(p, q) ==
    IF p = <<>> \/ q = <<>> THEN FALSE
    ELSE Head(p) < Head(q) \/ (Head(p) = Head(q) /\ LexLess(Tail(p), Tail(q)))

\* m is discovered before n by a breadth-first walk from the root that takes
\* the children of a node in the order of their places
BreadthFirstBefore(m, n) ==
    \/ Len(PathTo(m)) < Len(PathTo(n))
    \/ Len(PathTo(m)) = Len(PathTo(n)) /\ LexLess(PathTo(m), PathTo(n))

OwnerOfEdge(e) == CHOOSE n \in DOMAIN nodes : \E i \in DOMAIN nodes[n].edges : nodes[n].edges[i] = e
PlaceOfEdge(e) == CHOOSE i \in DOMAIN nodes[OwnerOfEdge(e)].edges : nodes[OwnerOfEdge(e)].edges[i] = e

(* ------------------------------------------------------------------ *)
(* C1                                                                 *)
(* ------------------------------------------------------------------ *)

\* C1 as claimed: once the parser has stopped on an input whose {} and ()
\* nesting is balanced, it has returned a tree, and the nodes reachable from
\* the root are as many as the '{' and ':' of the input.
C1_BalancedInputYieldsFullTree ==
    (ParseEnded /\ Balanced(input)) =>
        (root # 0 /\ Cardinality(Reach(nodes, root)) = CountDelims(input))

\* C1 as amended: whenever the parser has returned a tree, the nodes reachable
\* from the root are as many as the '{' and ':' of the input from the root's
\* own '{' through the '}' that returned it.
C1_TreeCountsDelimitersRead ==
    root # 0 =>
        Cardinality(Reach(nodes, root)) =
            CountDelims(SubSeq(input, born[root].at, Len(input) - Len(stream)))

\* a balanced input read to its end, whose tree has six nodes under the first '{'
C1_Witness ==
    /\ root # 0 /\ Balanced(input) /\ stream = <<>> /\ born[root].at = 1
    /\ Cardinality(Reach(nodes, root)) >= 6

(* ------------------------------------------------------------------ *)
(* C2                                                                 *)
(* ------------------------------------------------------------------ *)

\* C2: the k-th node created by a parse (counting from 0) was given suffix k
\* when it was created, so these suffixes are pairwise distinct; a node that
\* is still an item still carries it.
C2_OrdinalsFollowCreation ==
    /\ Len(born) = Len(nodes)
    /\ \A k \in DOMAIN born : born[k].suffix = k - 1
    /\ \A k \in DOMAIN nodes : nodes[k].tag = TagItem => nodes[k].suffix = k - 1

\* five nodes exist, created by '{' and by ':', and one of them has since
\* been given the suffix of another node
C2_Witness ==
    /\ Len(nodes) >= 5
    /\ \E k \in DOMAIN nodes : nodes[k].tag = TagItem
    /\ \E k \in DOMAIN nodes : nodes[k].suffix # born[k].suffix

(* ------------------------------------------------------------------ *)
(* C3                                                                 *)
(* ------------------------------------------------------------------ *)

\* the edge into the node named dst leaves the node named src at port 0
ChainsFrom(dst, src) ==
    /\ \E e \in AllEdges : e.dst = nodes[NodeNamed(dst)].suffix
    /\ \A e \in AllEdges :
          e.dst = nodes[NodeNamed(dst)].suffix =>
              e.src = nodes[NodeNamed(src)].suffix /\ e.srcport = 0

\* C3 as claimed: on {A :f (x) {B} {C} )} the parse completes and the edge
\* into C leaves B at port 0.
C3_ListChainAsWritten ==
    (input = InListChain /\ ParseEnded) =>
        (root # 0 /\ ChainsFrom(<<"C">>, <<"B">>))

\* C3 as amended: on {A :f ({B} {C})} the parse completes and the edge into C
\* leaves B's own suffix at port 0, not A's suffix at the port of the field f.
C3_ListChain ==
    (input = InList /\ ParseEnded) =>
        /\ root # 0
        /\ ChainsFrom(<<"C">>, <<"B">>)
        /\ nodes[NodeNamed(<<"B">>)].suffix # nodes[NodeNamed(<<"A">>)].suffix

C3_Witness ==
    /\ input = InList /\ pc = "written"
    /\ nodes[NodeNamed(<<"f">>)].tag = TagList
    /\ Len(nodes[NodeNamed(<<"f">>)].elems) = 2

(* ------------------------------------------------------------------ *)
(* C4                                                                 *)
(* ------------------------------------------------------------------ *)

\* C4: the script written for {A :f {B}} has exactly one edge line, which
\* leaves A's suffix and enters B's suffix at port 0, and no node block for f.
C4_SuppressedOneEdgeNoBlock ==
    (input = InSuppressed /\ pc = "written") =>
        /\ Len(EdgeLines) = 1
        /\ EdgeLines[1].edge.src = nodes[NodeNamed(<<"A">>)].suffix
        /\ EdgeLines[1].edge.dst = nodes[NodeNamed(<<"B">>)].suffix
        /\ EdgeLines[1].edge.dstport = 0
        /\ \A i \in DOMAIN Blocks : Blocks[i].name # <<"f">>

\* {A :f {B}} has been written, and f was visited in pass 1 as a hidden node
C4_Witness ==
    /\ input = InSuppressed /\ pc = "written"
    /\ nodes[NodeNamed(<<"f">>)].tag = TagHide
    /\ NodeNamed(<<"f">>) \in freed

(* ------------------------------------------------------------------ *)
(* C5                                                                 *)
(* ------------------------------------------------------------------ *)

\* the child of the block's node that a row of the block shows
ChildOfRow(b, r) ==
    CHOOSE c \in DOMAIN nodes :
        /\ \E i \in DOMAIN nodes[NodeOfBlock(b)].elems : nodes[NodeOfBlock(b)].elems[i] = c
        /\ nodes[c].index = r.port

\* C5 as claimed: no row of a written block shows a hidden (suppressed) field.
C5_SuppressedHasNoRow ==
    \A i \in DOMAIN Blocks : \A j \in DOMAIN Blocks[i].rows :
        nodes[ChildOfRow(Blocks[i], Blocks[i].rows[j])].tag # TagHide

\* C5 as amended: a hidden field under a structural node does have a row in
\* the block of that node, carrying the field's slot and label, unless
\* empty-skipping is on and the label contains "--"; on {A :f {B}} the block
\* of A has the row of f.
C5_SuppressedKeepsRow ==
    pc = "written" =>
        \A h \in Reach(nodes, root) :
            ( /\ nodes[h].tag = TagHide
              /\ nodes[ParentOf(h)].tag = TagNode
              /\ (~enable_skip_empty \/ ~Contains(nodes[h].name, <<"-", "-">>)) )
            => \E i \in DOMAIN Blocks :
                  /\ Blocks[i].suffix = nodes[ParentOf(h)].suffix
                  /\ Blocks[i].name = nodes[ParentOf(h)].name
                  /\ \E j \in DOMAIN Blocks[i].rows :
                        /\ Blocks[i].rows[j].port = nodes[h].index
                        /\ Blocks[i].rows[j].text = nodes[h].name

\* {A :f {B}} has been written with f hidden under A
C5_Witness ==
    /\ input = InSuppressed /\ pc = "written"
    /\ nodes[NodeNamed(<<"f">>)].tag = TagHide
    /\ ParentOf(NodeNamed(<<"f">>)) = root
    /\ Len(Blocks) >= 1

(* ------------------------------------------------------------------ *)
(* C6                                                                 *)
(* ------------------------------------------------------------------ *)

\* C6: the script written for {A :f {B}} has a node block for B besides the
\* block for A.
C6_NestedNodeHasBlock ==
    (input = InSuppressed /\ pc = "written") =>
        /\ \E i \in DOMAIN Blocks : Blocks[i].name = <<"A">>
        /\ \E i \in DOMAIN Blocks :
              Blocks[i].name = <<"B">> /\ Blocks[i].suffix = nodes[NodeNamed(<<"B">>)].suffix

(* ------------------------------------------------------------------ *)
(* C7                                                                 *)
(* ------------------------------------------------------------------ *)

Marker == <<"-", "-">>

\* C7: in every written block, with empty-skipping on no row shows a child
\* labelled exactly "--"; with it off the rows are the children of the node,
\* one row each, in order, each carrying the child's slot and label.
C7_EmptySkip ==
    \A i \in DOMAIN Blocks :
        LET p == NodeOfBlock(Blocks[i])
            rows == Blocks[i].rows
            kids == nodes[p].elems
        IN  /\ enable_skip_empty =>
                \A k \in DOMAIN kids :
                    nodes[kids[k]].name = Marker =>
                        \A j \in DOMAIN rows : rows[j].port # nodes[kids[k]].index
            /\ ~enable_skip_empty =>
                /\ Len(rows) = Len(kids)
                /\ \A k \in DOMAIN kids :
                      rows[k].port = nodes[kids[k]].index /\ rows[k].text = nodes[kids[k]].name

\* with empty-skipping on, a block was written for a node one of whose
\* children is labelled "--" and another is not
C7_Witness ==
    /\ enable_skip_empty
    /\ \E i \in DOMAIN Blocks :
          LET kids == nodes[NodeOfBlock(Blocks[i])].elems
          IN  /\ \E k \in DOMAIN kids : nodes[kids[k]].name = Marker
              /\ Len(Blocks[i].rows) >= 1

(* ------------------------------------------------------------------ *)
(* C8                                                                 *)
(* ------------------------------------------------------------------ *)

\* C8: without colours the script written for
\* {QUERY :targetList ({TARGETENTRY :expr --})} is the block of QUERY with the
\* one row of targetList, the block of TARGETENTRY with the one row "expr --"
\* (no row when empty-skipping is on), and one edge line from the targetList
\* port of QUERY to port 0 of TARGETENTRY.
C8_EndToEnd ==
    (input = InQuery /\ ~enable_color /\ pc = "written") =>
        /\ Len(Blocks) = 2 /\ Len(EdgeLines) = 1 /\ Len(out) = 3
        /\ Blocks[1].name = <<"Q","U","E","R","Y">>
        /\ Blocks[1].suffix = nodes[root].suffix
        /\ Len(Blocks[1].rows) = 1
        /\ Blocks[1].rows[1].text = <<"t","a","r","g","e","t","L","i","s","t">>
        /\ Blocks[2].name = <<"T","A","R","G","E","T","E","N","T","R","Y">>
        /\ Blocks[2].suffix # Blocks[1].suffix
        /\ IF enable_skip_empty
           THEN Blocks[2].rows = <<>>
           ELSE /\ Len(Blocks[2].rows) = 1
                /\ Blocks[2].rows[1].text = <<"e","x","p","r"," ","-","-">>
        /\ EdgeLines[1].edge.src = Blocks[1].suffix
        /\ EdgeLines[1].edge.srcport = Blocks[1].rows[1].port
        /\ EdgeLines[1].edge.dst = Blocks[2].suffix
        /\ EdgeLines[1].edge.dstport = 0
        /\ EdgeLines[1].edge.color = ""

C8_Witness ==
    input = InQuery /\ ~enable_color /\ enable_skip_empty /\ pc = "written" /\ out # <<>>

(* ------------------------------------------------------------------ *)
(* C9                                                                 *)
(* ------------------------------------------------------------------ *)

\* C9 as claimed: a second serialization of the tree that was serialized
\* completes and writes the script the first one wrote.
C9_SecondSerializationSame ==
    again # <<>> => (~again[1].fault /\ again[1].out = out)

\* C9 as amended: the tree cannot be serialized a second time, every node
\* having been deleted by the first; what is repeatable is the conversion:
\* the script written for a file is the script written for the same file
\* before.
C9_SameFileSameScript ==
    /\ pc = "written" => Reach(nodes, root) \subseteq freed
    /\ (pc = "written" /\ file > 1) => \A k \in DOMAIN scripts : scripts[k] = out

\* the second conversion of a file has written a script with blocks and edges
C9_Witness ==
    /\ pc = "written" /\ file = 2
    /\ Len(Blocks) >= 2 /\ Len(EdgeLines) >= 2

(* ------------------------------------------------------------------ *)
(* C10                                                                *)
(* ------------------------------------------------------------------ *)

\* C10: in the script every node block stands before every edge line; the
\* blocks stand in the order a breadth-first walk from the root discovers
\* their nodes (by depth, then by the places of the path), and the edge
\* lines in the order that walk discovers the nodes holding them, the edges
\* of one node in the order they were added.
C10_Ordering ==
    /\ \A i, j \in DOMAIN out :
          (i < j /\ out[j].kind = "node") => out[i].kind = "node"
    /\ \A i, j \in DOMAIN Blocks :
          i < j => BreadthFirstBefore(NodeOfBlock(Blocks[i]), NodeOfBlock(Blocks[j]))
    /\ \A i, j \in DOMAIN EdgeLines :
          i < j =>
            LET e == EdgeLines[i].edge
                f == EdgeLines[j].edge
            IN  \/ BreadthFirstBefore(OwnerOfEdge(e), OwnerOfEdge(f))
                \/ OwnerOfEdge(e) = OwnerOfEdge(f) /\ PlaceOfEdge(e) < PlaceOfEdge(f)

\* a script is complete in which a block of depth 2 follows two blocks of
\* depth 1, and edges of three nodes were written
C10_Witness ==
    /\ pc = "written"
    /\ \E i, j, k \in DOMAIN Blocks :
          /\ i < j /\ j < k
          /\ Len(PathTo(NodeOfBlock(Blocks[i]))) = 1
          /\ Len(PathTo(NodeOfBlock(Blocks[j]))) = 1
          /\ Len(PathTo(NodeOfBlock(Blocks[k]))) = 2
    /\ Cardinality({OwnerOfEdge(EdgeLines[i].edge) : i \in DOMAIN EdgeLines}) >= 3

(* ------------------------------------------------------------------ *)
(* C11                                                                *)
(* ------------------------------------------------------------------ *)

\* the characters get_pg_node_name collected for node n, trimmed: the text
\* that follows the delimiter of n in the input, as the read loop takes it
TrimmedRaw(n) ==
    trim(ReadName(SubSeq(input, born[n].at + 1, Len(input)), <<>>).name)

\* C11: the label stored in a node holds none of '"', '<', '>'. It is the
\* trimmed text read for the node, character by character, with a space for
\* each '"' and a '-' for each '<' and each '>'; no other character changes
\* and nothing is trimmed after the replacement.
C11_Sanitized ==
    \A n \in DOMAIN nodes :
        LET raw == TrimmedRaw(n)
            label == nodes[n].name
        IN  /\ Len(label) = Len(raw)
            /\ \A i \in DOMAIN label :
                  /\ label[i] \notin {"\"", "<", ">"}
                  /\ raw[i] = "\"" => label[i] = " "
                  /\ raw[i] \in {"<", ">"} => label[i] = "-"
                  /\ raw[i] \notin {"\"", "<", ">"} => label[i] = raw[i]

\* a field whose text held all three reserved characters has been stored
C11_Witness ==
    \E n \in DOMAIN nodes :
        /\ {"\"", "<", ">"} \subseteq {TrimmedRaw(n)[i] : i \in DOMAIN TrimmedRaw(n)}
        /\ nodes[n].tag = TagItem

(* ------------------------------------------------------------------ *)
(* C12                                                                *)
(* ------------------------------------------------------------------ *)

\* C12: the parser has returned a tree only if the last character it read is
\* a '}' that emptied the stack, and the root is the node that '}' popped (a
\* node whose '{' or ':' stands before it); and whenever the input has been
\* read to its end without a tree being returned, the parse has ended with
\* the failure reported and no tree.
C12_SuccessExactlyAtClosingBrace ==
    /\ root # 0 =>
          /\ nodes_stack = <<>>
          /\ input[Len(input) - Len(stream)] = "}"
          /\ root \in DOMAIN nodes /\ born[root].at < Len(input) - Len(stream)
    /\ (root = 0 /\ stream = <<>> /\ ParseEnded) => pc = "noroot"

(* ------------------------------------------------------------------ *)
(* C13                                                                *)
(* ------------------------------------------------------------------ *)

\* the character ch, read by the parser now, breaks its contract
BreaksContract(ch) ==
    \/ ch \in {":", ")", "}", "("} /\ nodes_stack = <<>>
    \/ ch = "(" /\ nodes_stack # <<>> /\ nodes[Last(nodes_stack)].elems = <<>>

\* C13: when the parser (the files being open) reads ':', ')', '}' or '(' with the stack empty, or
\* '(' with a stack top that has no children, its step is the abort: nothing
\* is read past that character, no node changes, no tree is returned; and an
\* aborted conversion stays aborted, without a tree.
C13_FailFast ==
    [][ /\ (pc = "parse" /\ pc' \notin {"noinput", "nodot"}
                /\ stream # <<>> /\ BreaksContract(Head(stream))) =>
            (pc' = "abort" /\ stream' = stream /\ nodes' = nodes /\ root' = 0)
        /\ pc = "abort" => (pc' = "abort" /\ stream' = stream /\ root' = 0 /\ out' = out)
      ]_vars

\* the parse was aborted at a '(' read under a node that has no children,
\* in the middle of the input
C13_Witness ==
    /\ pc = "abort" /\ root = 0
    /\ Head(stream) = "(" /\ Len(stream) > 1
    /\ nodes_stack # <<>> /\ nodes[Last(nodes_stack)].elems = <<>>

(* ------------------------------------------------------------------ *)
(* C14                                                                *)
(* ------------------------------------------------------------------ *)

\* C14: the name reader never stays in its read loop at end-of-file: when the
\* input ends before a ':', '{' or '}' closes the name, as in {A :f 1, the
\* reader stops, and once the parser has stopped reading the conversion has
\* ended in a failure (aborted, or the parse failure reported), with no tree.
C14_NameReaderFailsAtEof ==
    /\ pc # "spin"
    /\ (input = InCutOff /\ ParseEnded) => (pc \in {"abort", "noroot"} /\ root = 0)

(* ------------------------------------------------------------------ *)
(* C15                                                                *)
(* ------------------------------------------------------------------ *)

\* the '(' at place i of s has '{' as the next character that is no space;
\* ListBrace is the place of that '{'
OpensList(s, i) ==
    \E j \in (i + 1)..Len(s) : s[j] = "{" /\ \A k \in (i + 1)..(j - 1) : isspace(s[k])
ListBrace(s, i) ==
    CHOOSE j \in (i + 1)..Len(s) : s[j] = "{" /\ \A k \in (i + 1)..(j - 1) : isspace(s[k])

\* a name ends at place i of s
StopsName(s, i) ==
    \/ s[i] \in {":", "{", "}"}
    \/ s[i] = "(" /\ OpensList(s, i)

\* how often the character c stands in s
Occurrences(s, c) == Cardinality({i \in DOMAIN s : s[i] = c})

\* C15: when the parser has created a node, the name reader it called left
\* the stream so that the next character read is the first ':', '{' or '}'
\* after the node's own delimiter, with everything behind it untouched, or,
\* if a '(' whose next non-space character is '{' comes first, that '('
\* followed directly by that '{' and everything behind it. Every '(' before
\* that place was kept in the name.
C15_StopsBeforeDelimiter ==
    [][ Len(nodes') > Len(nodes) =>
          LET s == Tail(stream)
              i == CHOOSE k \in DOMAIN s :
                       StopsName(s, k) /\ \A m \in 1..(k - 1) : ~StopsName(s, m)
          IN  /\ \E k \in DOMAIN s : StopsName(s, k)
              /\ stream' = IF s[i] = "("
                           THEN <<"(">> \o SubSeq(s, ListBrace(s, i), Len(s))
                           ELSE SubSeq(s, i, Len(s))
              /\ Occurrences(nodes'[Len(nodes')].name, "(") = Occurrences(SubSeq(s, 1, i - 1), "(")
      ]_vars

\* the field g of {A :f (x) :g ( {B})} has just been read: the stream stands
\* at the '(' with the '{' next, the space between them gone, and the value
\* of f kept its '('
C15_Witness ==
    /\ input = InParens /\ pc = "parse" /\ Len(nodes) = 3
    /\ Len(stream) >= 2 /\ stream[1] = "(" /\ stream[2] = "{"
    /\ input[Pos] = " "
    /\ Occurrences(nodes[2].name, "(") = 1

(* ------------------------------------------------------------------ *)
(* C16                                                                *)
(* ------------------------------------------------------------------ *)

\* C16: when main() has printed its word for a file whose conversion failed
\* (a file could not be opened, the parse returned no tree, or the renderer
\* returned nonzero), the word is "failed", and it is "ok" only for a
\* conversion that did not fail; and if files remain the next one is taken up.
C16_FailedFileReportedFailed ==
    reported # <<>> =>
        /\ reported[1].failed = Failed
        /\ Failed => reported[1].said = "failed"
        /\ ~Failed => reported[1].said = "ok"
        /\ file < Files => ENABLED NextFile

(* ------------------------------------------------------------------ *)
(* C17                                                                *)
(* ------------------------------------------------------------------ *)

\* C17: once the parser has returned a tree, write_dot_script comes to its
\* end. While pass 2 runs, the nodes waiting in its queue are pairwise
\* different nodes of the tree, none of them deleted yet, and the deleted
\* nodes are nodes of the tree; so no node is visited or deleted twice, and
\* none is visited after it was deleted. At the end every node reachable
\* from the root has been deleted.
C17_SerializationTerminates ==
    /\ [](pc = "pass2" =>
            /\ \A i \in DOMAIN bfs : bfs[i] \in Reach(nodes, root) \ freed
            /\ \A i, j \in DOMAIN bfs : bfs[i] = bfs[j] => i = j
            /\ freed \subseteq Reach(nodes, root))
    /\ [](pc = "written" => freed = Reach(nodes, root))
    /\ (pc = "parsed" ~> pc = "written")

\* pass 2 is half-way through a tree of at least six nodes: some are deleted,
\* two are waiting
C17_Witness ==
    /\ pc = "pass2" /\ Len(bfs) >= 2 /\ Cardinality(freed) >= 2
    /\ Cardinality(Reach(nodes, root)) >= 6

(* ------------------------------------------------------------------ *)
(* C18                                                                *)
(* ------------------------------------------------------------------ *)

\* C18: a '{' read with the stack not empty creates a node under the
\* effective parent: the last child of the stack top if prev_is_item (that
\* child becomes hidden and takes the top's suffix), else the stack top. One
\* edge is appended to the effective parent's edges and the new node to its
\* elems. The edge enters the new node's suffix at port 0. It leaves the
\* effective parent's suffix at the parent's own slot, unless the effective
\* parent is a list that already had a child: then it leaves the suffix of
\* that list's last child at port 0.
C18_EdgeEndpoints ==
    [][ (pc = "parse" /\ stream # <<>> /\ Head(stream) = "{"
            /\ nodes_stack # <<>> /\ Len(nodes') > Len(nodes)) =>
          LET tmp == Last(nodes_stack)
              eff == IF prev_is_item THEN Last(nodes[tmp].elems) ELSE tmp
              new == Len(nodes')
              e == Last(nodes'[eff].edges)
          IN  /\ nodes'[eff].edges = Append(nodes[eff].edges, e)
              /\ nodes'[eff].elems = Append(nodes[eff].elems, new)
              /\ \A n \in DOMAIN nodes \ {eff} :
                    nodes'[n].edges = nodes[n].edges /\ nodes'[n].elems = nodes[n].elems
              /\ prev_is_item =>
                    (nodes'[eff].tag = TagHide /\ nodes'[eff].suffix = nodes[tmp].suffix)
              /\ ~prev_is_item => nodes'[eff] = [nodes[eff] EXCEPT !.edges = Append(@, e),
                                                                   !.elems = Append(@, new)]
              /\ e.dst = nodes'[new].suffix /\ e.dstport = 0
              /\ IF nodes'[eff].tag = TagList /\ nodes[eff].elems # <<>>
                 THEN e.src = nodes[Last(nodes[eff].elems)].suffix /\ e.srcport = 0
                 ELSE e.src = nodes'[eff].suffix /\ e.srcport = nodes'[eff].index
      ]_vars

\* a node has just been created under a hidden item, whose edge leaves the
\* suffix of the item's parent at the item's slot; and a list holds two
\* nodes, the second entered by an edge that leaves the first at port 0
C18_Witness ==
    /\ pc = "parse" /\ nodes_stack # <<>>
    /\ Last(nodes_stack) = Len(nodes) /\ HasParent(Len(nodes))
    /\ LET h == ParentOf(Len(nodes))
       IN  /\ nodes[h].tag = TagHide /\ nodes[h].index >= 1
           /\ HasParent(h) /\ Len(nodes[h].edges) = 1
           /\ nodes[h].edges[1].src = nodes[ParentOf(h)].suffix
           /\ nodes[h].edges[1].srcport = nodes[h].index
           /\ nodes[h].edges[1].dst = nodes[Len(nodes)].suffix
    /\ \E l \in DOMAIN nodes :
          /\ nodes[l].tag = TagList /\ Len(nodes[l].elems) >= 2
          /\ Len(nodes[l].edges) = Len(nodes[l].elems)
          /\ nodes[l].edges[2].src = nodes[nodes[l].elems[1]].suffix
          /\ nodes[l].edges[2].srcport = 0

(* ------------------------------------------------------------------ *)
(* C19                                                                *)
(* ------------------------------------------------------------------ *)

\* C19: in every state, a node tagged TagHide was created by a ':' (as an
\* item), has exactly one child, and that child is tagged TagNode.
C19_SuppressedHasOneStructuralChild ==
    \A h \in DOMAIN nodes :
        nodes[h].tag = TagHide =>
            /\ input[born[h].at] = ":"
            /\ Len(nodes[h].elems) = 1
            /\ nodes[nodes[h].elems[1]].tag = TagNode

\* a tree was returned in which a hidden item heads a node that has children
\* of its own, and the parser had gone on reading under the item's parent
C19_Witness ==
    /\ pc = "parsed"
    /\ \E h \in Reach(nodes, root) :
          /\ nodes[h].tag = TagHide
          /\ nodes[nodes[h].elems[1]].elems # <<>>
          /\ Len(nodes[ParentOf(h)].elems) > nodes[h].index

(* ------------------------------------------------------------------ *)
(* C20                                                                *)
(* ------------------------------------------------------------------ *)

\* C20: in every state of the parser, a node tagged TagList carries the
\* suffix of a node tagged TagNode under which it hangs: the node that was
\* on top of the stack when '(' made it a list, or, for a list inside a
\* list, the node the outer list took its suffix from.
C20_ListCarriesStructuralOrdinal ==
    \A l \in DOMAIN nodes :
        nodes[l].tag = TagList =>
            \E s \in DOMAIN nodes :
                /\ nodes[s].tag = TagNode
                /\ nodes[s].suffix = nodes[l].suffix
                /\ s # l /\ l \in Reach(nodes, s)

(* ------------------------------------------------------------------ *)
(* C21                                                                *)
(* ------------------------------------------------------------------ *)

\* C21: in every state, the k-th element of a node's elems has index k, so a
\* node that has a parent has an index of at least 1 and stands at that
\* place of its parent's elems; a node without a parent (created with the
\* stack empty) has index 0.
C21_SlotIsPlaceInParent ==
    /\ \A p \in DOMAIN nodes : \A k \in DOMAIN nodes[p].elems :
          nodes[nodes[p].elems[k]].index = k
    /\ \A n \in DOMAIN nodes :
          IF HasParent(n)
          THEN /\ nodes[n].index >= 1
               /\ nodes[n].index <= Len(nodes[ParentOf(n)].elems)
               /\ nodes[ParentOf(n)].elems[nodes[n].index] = n
          ELSE nodes[n].index = 0

\* a parentless node holds three children, of which the middle one has
\* become a list or a hidden item
C21_Witness ==
    \E p \in DOMAIN nodes :
        /\ ~HasParent(p)
        /\ Len(nodes[p].elems) >= 3
        /\ nodes[nodes[p].elems[2]].tag \in {TagList, TagHide}

(* ------------------------------------------------------------------ *)
(* C22                                                                *)
(* ------------------------------------------------------------------ *)

\* the places (parent, k) at which n stands in some elems
PlacesOf(n) ==
    {pk \in (DOMAIN nodes) \X (1..Len(nodes)) :
        pk[2] \in DOMAIN nodes[pk[1]].elems /\ nodes[pk[1]].elems[pk[2]] = n}

\* C22: in every state, no node stands in more than one place of the elems
\* of all nodes, every node was created after the node it hangs under (so
\* none is its own ancestor), and at most one node has no parent.
C22_OneTree ==
    /\ \A n \in DOMAIN nodes : Cardinality(PlacesOf(n)) <= 1
    /\ \A n \in DOMAIN nodes : \A pk \in PlacesOf(n) : pk[1] < n
    /\ Cardinality({n \in DOMAIN nodes : PlacesOf(n) = {}}) <= 1

(* ------------------------------------------------------------------ *)
(* C23                                                                *)
(* ------------------------------------------------------------------ *)

\* C23: in every state, a node created by '{' is still tagged TagNode and
\* still carries the suffix it was created with; a node created by ':' is
\* an item with the suffix it was created with, or has become a hidden item
\* or a list.
C23_StructuralNeverReclassified ==
    \A n \in DOMAIN nodes :
        /\ input[born[n].at] = "{" =>
              (nodes[n].tag = TagNode /\ nodes[n].suffix = born[n].suffix)
        /\ input[born[n].at] = ":" =>
              \/ nodes[n].tag = TagItem /\ nodes[n].suffix = born[n].suffix
              \/ nodes[n].tag \in {TagHide, TagList}

(* ------------------------------------------------------------------ *)
(* C24                                                                *)
(* ------------------------------------------------------------------ *)

\* C24: whenever prev_is_item holds, the stack is not empty and the last
\* child of its top is the node created last, created by a ':', still an
\* item and still carrying the suffix it was created with, the one before
\* the counter; and the parser never aborts at a '{' (the assertion of the
\* '{' case does not fail).
C24_FlagMeansFreshItem ==
    /\ prev_is_item =>
          /\ nodes_stack # <<>>
          /\ nodes[Last(nodes_stack)].elems # <<>>
          /\ LET item == Last(nodes[Last(nodes_stack)].elems)
             IN  /\ item = Len(nodes)
                 /\ input[born[item].at] = ":"
                 /\ nodes[item].tag = TagItem
                 /\ nodes[item].suffix = born[item].suffix
                 /\ nodes[item].suffix = node_suffix - 1
    /\ pc = "abort" => Head(stream) # "{"

\* the flag is set with the parser two levels down, under a node that holds
\* other children before the item
C24_Witness ==
    /\ pc = "parse" /\ prev_is_item /\ stream # <<>> /\ Head(stream) = "{"
    /\ Len(nodes_stack) >= 2
    /\ Len(nodes[Last(nodes_stack)].elems) >= 2

(* ------------------------------------------------------------------ *)
(* C25                                                                *)
(* ------------------------------------------------------------------ *)

\* C25: whenever the parser is about to read a ')' with the stack not
\* empty, the node it will pop is a list, and whenever it is about to read
\* a '}', the node it will pop is tagged TagNode; while the parser is
\* reading, the stack is empty only as long as no node has been created;
\* and a returned root is the node created first, with suffix 0.
C25_DelimitersMatch ==
    /\ (pc = "parse" /\ stream # <<>> /\ nodes_stack # <<>>) =>
          /\ Head(stream) = ")" => nodes[Last(nodes_stack)].tag = TagList
          /\ Head(stream) = "}" => nodes[Last(nodes_stack)].tag = TagNode
    /\ (pc = "parse" /\ nodes # <<>>) => nodes_stack # <<>>
    /\ root # 0 => (root = 1 /\ nodes[root].suffix = 0)

(* ------------------------------------------------------------------ *)
(* C26                                                                *)
(* ------------------------------------------------------------------ *)

\* C26: in a written script, every edge line enters a suffix for which the
\* script holds a node block.
C26_EdgeDestinationHasBlock ==
    pc = "written" =>
        \A i \in DOMAIN EdgeLines :
            \E j \in DOMAIN Blocks : Blocks[j].suffix = EdgeLines[i].edge.dst

(* ------------------------------------------------------------------ *)
(* C27                                                                *)
(* ------------------------------------------------------------------ *)

\* C27: in a written script, every edge line leaves a suffix for which the
\* script holds a node block, at port 0 (the header of the block) or at a
\* port that is a row of that block, the row of the field or list that
\* holds the edge.
C27_EdgeSourceHasPort ==
    pc = "written" =>
        \A i \in DOMAIN EdgeLines :
            LET e == EdgeLines[i].edge
            IN  \E j \in DOMAIN Blocks :
                    /\ Blocks[j].suffix = e.src
                    /\ \/ e.srcport = 0
                       \/ \E r \in DOMAIN Blocks[j].rows :
                             /\ Blocks[j].rows[r].port = e.srcport
                             /\ Blocks[j].rows[r].text = nodes[OwnerOfEdge(e)].name

====
